---- MODULE Spec2Model ----
(***************************************************************************)
(* Model of the trash-bin geocoding ETL (scripts/trash_bin_etl.py):        *)
(* address normalisation (clean_address), the geocoding client             *)
(* (call_naver_api), the tiered resolver (get_coordinates) and the         *)
(* thread-pool batch of TrashBinETL.transform.                             *)
(*                                                                         *)
(* Text is modelled as a sequence of characters.  A Hangul syllable is     *)
(* written by its romanisation ("cheong" is U+CCAD), every other           *)
(* character by itself.                                                    *)
(***************************************************************************)
EXTENDS Integers, Sequences, FiniteSets, TLC

(* ------------------------------------------------------------------ *)
(* Characters                                                          *)
(* ------------------------------------------------------------------ *)

\* the Hangul syllables the model uses (all lie in the range [가-힣])
Hangul ==
  {"cheong", "ge", "gye", "cheon", "eul", "ji", "ro", "ha", "yeok", "beon",
   "seo", "ul", "teuk", "byeol", "si", "jung", "gu"}

Digits == {"1", "3", "4"}

\* str.split() / str.strip() / regex \s whitespace
Whitespace == {" ", "\n"}

\* the character class [a-zA-Z0-9가-힣\s\-\,] of clean_address
Letters == {"a", "n"}
Allowed(c) == c \in Letters \cup Digits \cup Hangul \cup Whitespace \cup {"-", ","}

(* ------------------------------------------------------------------ *)
(* String primitives (Python str / re semantics)                       *)
(* ------------------------------------------------------------------ *)

\* s[i:] with a 1-based i
Drop(s, i) == SubSeq(s, i, Len(s))

\* s.startswith(p)
StartsWith(s, p) == Len(p) <= Len(s) /\ SubSeq(s, 1, Len(p)) = p

\* p in s
Contains(s, p) == \E i \in 1..(Len(s) - Len(p) + 1) : SubSeq(s, i, i + Len(p) - 1) = p

RECURSIVE LStrip(_)
LStrip(s) == IF s # <<>> /\ Head(s) \in Whitespace THEN LStrip(Tail(s)) ELSE s

RECURSIVE RStrip(_)
RStrip(s) ==
  IF s # <<>> /\ s[Len(s)] \in Whitespace THEN RStrip(SubSeq(s, 1, Len(s) - 1)) ELSE s

\* str.strip()
Strip(s) == RStrip(LStrip(s))

\* str.replace(old, new): leftmost, non-overlapping occurrences, old # ""
RECURSIVE Replace(_, _, _)
Replace(s, old, new) ==
  IF s = <<>> THEN <<>>
  ELSE IF StartsWith(s, old) THEN new \o Replace(Drop(s, Len(old) + 1), old, new)
  ELSE <<Head(s)>> \o Replace(Tail(s), old, new)

\* the position of the first ")" that a non-greedy ".*?" starting after an
\* opening parenthesis reaches, 0 if a newline (which "." does not match) or
\* the end of the text comes first; s is the text after the "("
RECURSIVE CloseAt(_, _)
CloseAt(s, i) ==
  IF i > Len(s) THEN 0
  ELSE IF s[i] = ")" THEN i
  ELSE IF s[i] = "\n" THEN 0
  ELSE CloseAt(s, i + 1)

\* mutant: only the parenthesis characters go, what they enclose stays
NotParen(c) == c \notin {"(", ")"}
RemoveParens_KeepInner(s) == SelectSeq(s, NotParen)

\* re.sub(r'\(.*?\)', '', s)
RECURSIVE RemoveParens(_)
RemoveParens(s) ==
  IF s = <<>> THEN <<>>
  ELSE IF Head(s) = "(" /\ CloseAt(Tail(s), 1) > 0
       THEN RemoveParens(Drop(Tail(s), CloseAt(Tail(s), 1) + 1))
  ELSE <<Head(s)>> \o RemoveParens(Tail(s))

\* re.sub(r'[^a-zA-Z0-9가-힣\s\-\,]', '', s)
StripDisallowed(s) == SelectSeq(s, Allowed)

\* ' '.join(s.split()): whitespace runs become one space, none at the ends
RECURSIVE CollapseWs(_)
CollapseWs(s) ==
  IF s = <<>> THEN <<>>
  ELSE IF Head(s) \in Whitespace
       THEN (IF LStrip(s) = <<>> THEN <<>> ELSE <<" ">> \o CollapseWs(LStrip(s)))
  ELSE <<Head(s)>> \o CollapseWs(Tail(s))

JoinSplit(s) == CollapseWs(LStrip(s))

(* ------------------------------------------------------------------ *)
(* clean_address                                                       *)
(* ------------------------------------------------------------------ *)

\* '청게천' -> '청계천'
TypoFrom == <<"cheong", "ge", "cheon">>
TypoTo == <<"cheong", "gye", "cheon">>
\* '을지로지하' -> '을지로 지하'
CompoundFrom == <<"eul", "ji", "ro", "ji", "ha">>
CompoundTo == <<"eul", "ji", "ro", " ", "ji", "ha">>

\* the two text.replace calls, in the order of the source
FixTypos(s) == Replace(Replace(s, TypoFrom, TypoTo), CompoundFrom, CompoundTo)

clean_address(text) ==
  IF text = <<>> THEN <<>>
  ELSE Strip(JoinSplit(StripDisallowed(RemoveParens(FixTypos(Strip(text))))))

(* ------------------------------------------------------------------ *)
(* Values                                                              *)
(* ------------------------------------------------------------------ *)

\* Python None and a float n, as values that compare with each other
None == <<>>
Float(n) == <<n>>

\* the pair (None, None)
Absent == <<None, None>>

\* Python truthiness of a float-or-None: None and 0.0 are falsy
Truthy(v) == v # None /\ v # Float(0)

(* ------------------------------------------------------------------ *)
(* call_naver_api: the response of one request and what it returns     *)
(* ------------------------------------------------------------------ *)

AuthStatuses == {401, 403}

\* float(str): the coordinate strings a payload can carry; "" does not parse
FloatStrings == {"37", "0", "127"}
ParseFloat(str) == CASE str = "37" -> 37 [] str = "0" -> 0 [] str = "127" -> 127

\* what session.get can produce: an HTTP response (status, JSON body) or an
\* exception (timeout, connection error); a body that is not JSON makes
\* response.json() raise, which the same except clause catches
Candidates == {[y |-> y, x |-> "127"] : y \in {"37", "0", ""}}
Bodies ==
  {[status |-> "OK", addresses |-> <<c>>] : c \in Candidates}
  \cup {[status |-> "OK", addresses |-> <<>>],
        [status |-> "INVALID_REQUEST", addresses |-> <<>>]}
NoBody == [status |-> "", addresses |-> <<>>]
Responses ==
  {[kind |-> "http", code |-> 200, body |-> b] : b \in Bodies}
  \cup {[kind |-> "http", code |-> c, body |-> NoBody] : c \in AuthStatuses \cup {500}}
  \cup {[kind |-> "exception", code |-> 0, body |-> NoBody]}

NoResponse == [kind |-> "none", code |-> 0, body |-> NoBody]

\* the value call_naver_api returns for a response (lines 56-65)
ApiReturn(r) ==
  IF r.kind = "http" /\ r.code = 200
       /\ r.body.status = "OK" /\ r.body.addresses # <<>>
  THEN LET target == r.body.addresses[1]
       IN IF target.y \in FloatStrings /\ target.x \in FloatStrings
          THEN <<Float(ParseFloat(target.y)), Float(ParseFloat(target.x))>>
          ELSE Absent
  ELSE Absent

\* mutant: every HTTP error status trips the circuit
SetsAuthFailed_AnyError(r) == r.kind = "http" /\ r.code # 200

\* whether handling the response executes self.auth_failed = True (line 62)
SetsAuthFailed(r) == r.kind = "http" /\ r.code \in AuthStatuses

(* ------------------------------------------------------------------ *)
(* get_coordinates: the queries of the three tiers                     *)
(* ------------------------------------------------------------------ *)

\* "서울특별시"
RegionPrefix == <<"seo", "ul", "teuk", "byeol", "si">>
\* '지하'
Underground == <<"ji", "ha">>
\* '역'
Station == "yeok"

Query(city_name, rest) == RegionPrefix \o <<" ">> \o city_name \o <<" ">> \o rest

Tier1Query(city_name, clean_addr) == Query(city_name, clean_addr)

Tier2Query(city_name, clean_addr) ==
  Query(city_name, Strip(Replace(clean_addr, Underground, <<>>)))

\* the longest prefix of s made of Hangul syllables
RECURSIVE HangulRun(_)
HangulRun(s) ==
  IF s = <<>> \/ Head(s) \notin Hangul THEN <<>> ELSE <<Head(s)>> \o HangulRun(Tail(s))

\* the last position i >= 2 of run holding '역', 0 if there is none
RECURSIVE LastStation(_, _)
LastStation(run, i) ==
  IF i < 2 THEN 0 ELSE IF run[i] = Station THEN i ELSE LastStation(run, i - 1)

\* re.search(r'([가-힣]+역)', s).group(1), <<>> when there is no match
RECURSIVE StationMatch(_)
StationMatch(s) ==
  IF s = <<>> THEN <<>>
  ELSE IF Head(s) \in Hangul
       THEN LET run == HangulRun(s)
                q == LastStation(run, Len(run))
            IN IF q > 0 THEN SubSeq(run, 1, q) ELSE StationMatch(Drop(s, Len(run) + 1))
  ELSE StationMatch(Tail(s))

\* f"{address} {location_desc}"
CombinedText(rec) == rec.address \o <<" ">> \o rec.location_desc

Tier3Query(rec) == Query(rec.city_name, StationMatch(CombinedText(rec)))

\* whether the tier-2 branch (line 80) is taken
HasTier2(rec) == Contains(clean_address(rec.address), Underground)

\* whether the tier-3 branch (lines 87-89) is taken
HasTier3(rec) ==
  Contains(CombinedText(rec), <<Station>>) /\ StationMatch(CombinedText(rec)) # <<>>

\* the tier get_coordinates tries after tier t came back falsy, 0 for none
NextTier(rec, t) ==
  IF t < 2 /\ HasTier2(rec) THEN 2
  ELSE IF t < 3 /\ HasTier3(rec) THEN 3
  ELSE 0

TierQuery(rec, t) ==
  CASE t = 1 -> Tier1Query(rec.city_name, clean_address(rec.address))
    [] t = 2 -> Tier2Query(rec.city_name, clean_address(rec.address))
    [] t = 3 -> Tier3Query(rec)

(* ------------------------------------------------------------------ *)
(* Bounds and inputs                                                   *)
(* ------------------------------------------------------------------ *)

\* rows of one spreadsheet
MaxRows == 2

\* ThreadPoolExecutor(max_workers=workers)
workers == 20

\* 중구
JungGu == <<"jung", "gu">>

\* the spreadsheet rows the model draws from (city_name, address,
\* location_desc, as read): an underground address beside a station, an
\* address that is only a parenthesis, a plain address beside a station, and
\* a row without an address
RowPool ==
  {[city_name |-> JungGu, address |-> <<"eul", "ji", "ro", "ji", "ha", " ">>,
    location_desc |-> <<"eul", "ji", "ro", "yeok">>],
   [city_name |-> JungGu, address |-> <<"(", "1", ")">>, location_desc |-> <<>>],
   [city_name |-> JungGu, address |-> <<"ro", "1">>,
    location_desc |-> <<"seo", "ul", "yeok", " ", "3", "beon">>],
   [city_name |-> JungGu, address |-> <<" ", "n", "a", "n">>, location_desc |-> <<>>]}

\* the sheets of at most MaxRows different rows
Sheets ==
  {sh \in UNION {[1..n -> RowPool] : n \in 0..MaxRows} :
     \A i, j \in DOMAIN sh : i # j => sh[i] # sh[j]}

\* the environment values NAVER_CLIENT_ID / NAVER_CLIENT_SECRET after stripping;
\* the batch is explored with both configured and with both missing
Credentials == {"", "key"}

(* ------------------------------------------------------------------ *)
(* The extracted spreadsheet and the destination table                 *)
(* ------------------------------------------------------------------ *)

\* the columns transform reads unconditionally (lines 129-131), under the
\* names line 128 gives them
RequiredColumns == {"city_name", "address", "location_desc"}

\* extract returned None: no directory, no .xlsx file, or the file did not load
NoData == [kind |-> "none", columns |-> {}, rows |-> <<>>]

\* pd.read_excel returned a DataFrame
Frame(columns, rows) == [kind |-> "frame", columns |-> columns, rows |-> rows]

\* the headers a spreadsheet can have: complete, or one required column missing
ColumnSets == {RequiredColumns} \cup {RequiredColumns \ {c} : c \in RequiredColumns}

\* data rows of the spreadsheet of one run
MaxRunRows == 1

RunSheets == {sh \in Sheets : Len(sh) <= MaxRunRows}

\* what extract can return
Extracted == {NoData} \cup {Frame(cols, sh) : cols \in ColumnSets, sh \in RunSheets}

\* df is None or df.empty
IsEmpty(d) == d.kind = "none" \/ d.rows = <<>>

\* float('nan'), what pd.to_numeric makes of None
NaN == <<0, 0>>

\* the null test of pandas (isna / notna) and of SQL (IS NULL)
isna(v) == v \in {None, NaN}

\* pd.to_numeric(column, errors='coerce') on a float-or-None value
to_numeric(v) == IF v = None THEN NaN ELSE v

\* ST_SetSRID(ST_MakePoint(longitude, latitude), 4326)
Point(longitude, latitude) == <<longitude, latitude>>

\* a row the destination table holds from an earlier run
OldRow ==
  [city_name |-> JungGu, address |-> <<"ro", "4">>, location_desc |-> <<>>,
   latitude |-> Float(37), longitude |-> Float(127),
   geom |-> Point(Float(127), Float(37))]

\* the contents of trash_bins when the run starts
Tables == {<<>>, <<OldRow>>}

(* ------------------------------------------------------------------ *)
(* State                                                               *)
(* ------------------------------------------------------------------ *)

VARIABLES
  naver_client_id,      \* self.naver_client_id
  naver_client_secret,  \* self.naver_client_secret
  auth_failed,          \* self.auth_failed
  records,              \* the rows of df after the address filter (line 133)
  futures,              \* per index: the future of get_coordinates and its frame
  results,              \* results (line 142): None or the tuple of the task
  cpc,                  \* where transform is: idle, next, check, record, join, done
  cur,                  \* index of the future as_completed yielded last
  yielded,              \* the futures as_completed has yielded
  completed,            \* completed (line 150)
  outcomes,             \* the latitude / longitude columns (lines 161-162)
  writes,               \* history: how often results[i] was assigned
  at401,                \* history: <<the unrecorded indices>> when the batch's first 401/403 arrived
  atTrip,               \* history: <<the indices not yet past line 152>> when this batch set auth_failed
  text,                 \* normaliser runs: the current text
  raw,                  \* normaliser runs: the text before the last clean_address
  applied,              \* normaliser runs: number of clean_address calls made
  rpc,                  \* where run() is: none, extract, transform, load, truncate, insert, geom, returned, raised
  data,                 \* what extract returned
  df,                   \* the dataset transform returned
  table,                \* the rows of the destination table
  executed,             \* the statements load has sent to the destination, in order
  caught,               \* the statement whose failure load caught and printed, "none" if none
  escaped,              \* the exception that left run(), "none" if none
  before                \* history: the rows of the table when run() was called

batchVars ==
  <<naver_client_id, naver_client_secret, auth_failed, records, futures, results,
    cpc, cur, yielded, completed, outcomes, writes, at401, atTrip>>
cleanVars == <<text, raw, applied>>
runVars == <<rpc, data, df, table, executed, caught, escaped, before>>
vars == <<batchVars, cleanVars, runVars>>

Indices == 1..Len(records)

\* a future that is queued: its frame is empty
\* what get_coordinates derives from the row alone: per tier, the query it
\* sends (lines 75, 81, 90) and the tier it goes on to when that one comes
\* back falsy (the conditions of lines 80 and 87-89)
TierPlan(rec) ==
  <<[query |-> TierQuery(rec, 1), next |-> NextTier(rec, 1)],
    [query |-> TierQuery(rec, 2), next |-> NextTier(rec, 2)],
    [query |-> TierQuery(rec, 3), next |-> NextTier(rec, 3)]>>

\* the future of executor.submit(self.get_coordinates, ...) for the row rec
NewFuture(rec) ==
  [state |-> "pending", pc |-> "none", tier |-> 0, resp |-> NoResponse,
   ret |-> Absent, calls |-> <<>>, plan |-> TierPlan(rec)]

Running == {i \in Indices : futures[i].state = "running"}
\* mutant: a cancelled future never counts as done
Done_FinishedOnly(i) == futures[i].state = "finished"

\* future.done(): the task returned, or the queued item was cancelled
Done(i) == futures[i].state \in {"finished", "cancelled"}

\* the network requests task i has issued
Requests(i) == Len(futures[i].calls)

(* ------------------------------------------------------------------ *)
(* transform, up to the submission of the tasks (lines 114-148)        *)
(* ------------------------------------------------------------------ *)

\* lines 129-133: strip the three columns, drop the rows without address
StripRow(row) ==
  [city_name |-> Strip(row.city_name), address |-> Strip(row.address),
   location_desc |-> Strip(row.location_desc)]

\* the address strings line 133 drops: '', 'nan' (the model has no 'None')
NullLike == {<<>>, <<"n", "a", "n">>}

RECURSIVE FilterRows(_)
FilterRows(sheet) ==
  IF sheet = <<>> THEN <<>>
  ELSE LET row == StripRow(Head(sheet))
       IN (IF row.address \in NullLike THEN <<>> ELSE <<row>>) \o FilterRows(Tail(sheet))

Transform(sheet) ==
  /\ cpc \in {"idle", "done"}
  /\ records' = (IF sheet = <<>> THEN <<>> ELSE FilterRows(sheet))
  /\ futures' = [i \in 1..Len(records') |-> NewFuture(records'[i])]
  /\ results' = [i \in 1..Len(records') |-> None]
  /\ writes' = [i \in 1..Len(records') |-> 0]
  /\ cpc' = (IF sheet = <<>> THEN "done" ELSE "next")
  /\ cur' = 0
  /\ yielded' = {}
  /\ completed' = 0
  /\ outcomes' = <<>>
  /\ at401' = <<>>
  /\ atTrip' = <<>>
  /\ UNCHANGED <<naver_client_id, naver_client_secret, auth_failed, cleanVars, runVars>>

(* ------------------------------------------------------------------ *)
(* One task: get_coordinates run by a pool thread (lines 67-94)        *)
(* ------------------------------------------------------------------ *)

\* the future of task i completes with value v
Finish(i, v) ==
  futures' = [futures EXCEPT ![i].state = "finished", ![i].pc = "none", ![i].ret = v]

\* `if lat:` (lines 77, 83, 92): whether get_coordinates returns the pair
TierSucceeded(pair) == Truthy(pair[1])

\* get_coordinates after the call of tier t returned pair: return it, go on
\* to the next tier, or return (None, None) at line 94
AfterTier(i, pair) ==
  LET f == futures[i]
      n == f.plan[f.tier].next
  IN IF TierSucceeded(pair)
     THEN futures' = [futures EXCEPT ![i].state = "finished", ![i].pc = "none",
                                     ![i].ret = pair,
                                     ![i].resp = NoResponse]
     ELSE IF n = 0
     THEN futures' = [futures EXCEPT ![i].state = "finished", ![i].pc = "none",
                                     ![i].ret = Absent,
                                     ![i].resp = NoResponse]
     ELSE futures' = [futures EXCEPT ![i].pc = "request", ![i].tier = n,
                                     ![i].resp = NoResponse]

\* a pool thread takes the oldest queued work item
StartTask(i) ==
  /\ cpc \in {"next", "check", "record", "join"}
  /\ futures[i].state = "pending"
  /\ \A j \in 1..(i - 1) : futures[j].state # "pending"
  /\ Cardinality(Running) < workers
  /\ futures' = [futures EXCEPT ![i].state = "running", ![i].pc = "entry"]
  /\ UNCHANGED <<naver_client_id, naver_client_secret, auth_failed, records, results,
                 cpc, cur, yielded, completed, outcomes, writes, at401, atTrip, cleanVars, runVars>>

\* mutant: the guard of line 69 without the circuit flag
ShortCircuit_IdOnly == naver_client_id = ""

\* whether get_coordinates returns at line 70 without querying
ShortCircuit == auth_failed \/ naver_client_id = ""

\* lines 69-75: the guard, then the tier-1 query is ready
Entry(i) ==
  /\ futures[i].state = "running" /\ futures[i].pc = "entry"
  /\ IF ShortCircuit
     THEN Finish(i, Absent)
     ELSE futures' = [futures EXCEPT ![i].pc = "request", ![i].tier = 1]
  /\ UNCHANGED <<naver_client_id, naver_client_secret, auth_failed, records, results,
                 cpc, cur, yielded, completed, outcomes, writes, at401, atTrip, cleanVars, runVars>>

\* the indices whose results slot is still unassigned
Unrecorded == {j \in Indices : writes[j] = 0}

\* lines 51-55: call_naver_api rejects a short query, else issues the request,
\* and the response r arrives
SendRequest(i, r) ==
  LET f == futures[i]
      q == f.plan[f.tier].query
  IN /\ f.state = "running" /\ f.pc = "request"
     /\ IF Len(q) < 2
        THEN /\ AfterTier(i, Absent)
             /\ UNCHANGED at401
        ELSE /\ futures' = [futures EXCEPT
                  ![i].pc = "handle", ![i].resp = r,
                  ![i].calls = Append(f.calls, [tier |-> f.tier, query |-> q])]
             /\ at401' = (IF SetsAuthFailed(r) /\ at401 = <<>> THEN <<Unrecorded>> ELSE at401)
     /\ UNCHANGED <<naver_client_id, naver_client_secret, auth_failed, records, results,
                    cpc, cur, yielded, completed, outcomes, writes, atTrip, cleanVars, runVars>>

\* mutant: the flag follows the last response instead of latching
AuthFailedAfter_Overwrite(r) == SetsAuthFailed(r)

\* the value of self.auth_failed after the response r was handled (lines 61-62)
AuthFailedAfter(r) == auth_failed \/ SetsAuthFailed(r)

\* the indices whose future the collector has neither recorded nor taken
\* past its check of auth_failed
NotPastCheck == {j \in Unrecorded : ~(cpc = "record" /\ cur = j)}

\* lines 56-65 and the return into get_coordinates
HandleResponse(i) ==
  LET f == futures[i]
      pair == ApiReturn(f.resp)
  IN /\ f.state = "running" /\ f.pc = "handle"
     /\ auth_failed' = AuthFailedAfter(f.resp)
     /\ atTrip' = (IF auth_failed' /\ ~auth_failed THEN <<NotPastCheck>> ELSE atTrip)
     /\ AfterTier(i, pair)
     /\ UNCHANGED <<naver_client_id, naver_client_secret, records, results,
                    cpc, cur, yielded, completed, outcomes, writes, at401, cleanVars, runVars>>

(* ------------------------------------------------------------------ *)
(* transform: collecting the futures (lines 150-162)                   *)
(* ------------------------------------------------------------------ *)

\* as_completed yields a future that is done and was not yielded before
NextCompleted(i) ==
  /\ cpc = "next"
  /\ i \notin yielded /\ Done(i)
  /\ cur' = i
  /\ yielded' = yielded \cup {i}
  /\ cpc' = "check"
  /\ UNCHANGED <<naver_client_id, naver_client_secret, auth_failed, records, futures,
                 results, completed, outcomes, writes, at401, atTrip, cleanVars, runVars>>

\* as_completed is exhausted: the for loop ends
LoopExhausted ==
  /\ cpc = "next"
  /\ yielded = Indices
  /\ cpc' = "join"
  /\ UNCHANGED <<naver_client_id, naver_client_secret, auth_failed, records, futures,
                 results, cur, yielded, completed, outcomes, writes, at401, atTrip,
                 cleanVars, runVars>>

\* executor.shutdown(wait=False, cancel_futures=True): queued items are cancelled
CancelFutures ==
  [i \in Indices |->
     IF futures[i].state = "pending" THEN [futures[i] EXCEPT !.state = "cancelled"]
     ELSE futures[i]]

\* mutant: the loop never looks at auth_failed
CheckAuthFailed_NoBreak ==
  /\ cpc = "check"
  /\ cpc' = "record"
  /\ UNCHANGED <<naver_client_id, naver_client_secret, auth_failed, records, futures,
                 results, cur, yielded, completed, outcomes, writes, at401, atTrip,
                 cleanVars, runVars>>

\* lines 152-154
CheckAuthFailed ==
  /\ cpc = "check"
  /\ IF auth_failed
     THEN futures' = CancelFutures /\ cpc' = "join"
     ELSE futures' = futures /\ cpc' = "record"
  /\ UNCHANGED <<naver_client_id, naver_client_secret, auth_failed, records, results,
                 cur, yielded, completed, outcomes, writes, at401, atTrip, cleanVars, runVars>>

\* mutant: the slot is the arrival position
future_to_index_Arrival(future) == completed + 1

\* index = future_to_index[future] (line 155)
future_to_index(future) == future

\* lines 155-157
RecordResult ==
  LET index == future_to_index(cur)
  IN /\ cpc = "record"
     /\ results' = [results EXCEPT ![index] = futures[cur].ret]
     /\ writes' = [writes EXCEPT ![index] = @ + 1]
     /\ completed' = completed + 1
     /\ cpc' = "next"
     /\ UNCHANGED <<naver_client_id, naver_client_secret, auth_failed, records, futures,
                    cur, yielded, outcomes, at401, atTrip, cleanVars, runVars>>

\* [r[0] if r else None ...], [r[1] if r else None ...] for one slot
Outcome(r) == IF r # None THEN <<r[1], r[2]>> ELSE Absent

\* the with block exits (shutdown(wait=True) waits for the running tasks),
\* then lines 161-162 build the coordinate columns
Join ==
  /\ cpc = "join"
  /\ \A i \in Indices : Done(i)
  /\ outcomes' = [i \in 1..Len(results) |-> Outcome(results[i])]
  /\ cpc' = "done"
  /\ UNCHANGED <<naver_client_id, naver_client_secret, auth_failed, records, futures,
                 results, cur, yielded, completed, writes, at401, atTrip, cleanVars, runVars>>

(* ------------------------------------------------------------------ *)
(* Specification of the batch                                          *)
(* ------------------------------------------------------------------ *)

\* after __init__ (lines 14-32)
Init ==
  /\ naver_client_id \in Credentials
  /\ naver_client_secret = naver_client_id
  /\ auth_failed = FALSE
  /\ records = <<>>
  /\ futures = <<>>
  /\ results = <<>>
  /\ cpc = "idle"
  /\ cur = 0
  /\ yielded = {}
  /\ completed = 0
  /\ outcomes = <<>>
  /\ writes = <<>>
  /\ at401 = <<>>
  /\ atTrip = <<>>
  /\ text = <<>>
  /\ raw = <<>>
  /\ applied = 0
  /\ rpc = "none"
  /\ data = NoData
  /\ df = <<>>
  /\ table = <<>>
  /\ executed = <<>>
  /\ caught = "none"
  /\ escaped = "none"
  /\ before = table

Next ==
  \/ \E sheet \in Sheets : Transform(sheet)
  \/ \E i \in Indices : StartTask(i)
  \/ \E i \in Indices : Entry(i)
  \/ \E i \in Indices : \E r \in Responses : SendRequest(i, r)
  \/ \E i \in Indices : HandleResponse(i)
  \/ \E i \in Indices : NextCompleted(i)
  \/ LoopExhausted
  \/ CheckAuthFailed
  \/ RecordResult
  \/ Join

Spec == Init /\ [][Next]_vars

(* ------------------------------------------------------------------ *)
(* Specification of the batch with its scheduling                      *)
(* ------------------------------------------------------------------ *)

\* a step of a pool thread or of the collecting thread of transform
BatchStep ==
  \/ \E i \in Indices : StartTask(i)
  \/ \E i \in Indices : Entry(i)
  \/ \E i \in Indices : \E r \in Responses : SendRequest(i, r)
  \/ \E i \in Indices : HandleResponse(i)
  \/ \E i \in Indices : NextCompleted(i)
  \/ LoopExhausted
  \/ CheckAuthFailed
  \/ RecordResult
  \/ Join

\* threads that can run do run, and session.get(..., timeout=5) (line 55)
\* returns or raises: while some thread of the batch can take a step, one does
SpecLive == Init /\ [][Next]_vars /\ WF_vars(BatchStep)

(* ------------------------------------------------------------------ *)
(* Specification of the normaliser alone                               *)
(* ------------------------------------------------------------------ *)

\* pieces an input text is put together from
MaxFrags == 3
\* clean_address calls made on one text
MaxApply == 2

\* "청게천로 14(을지로지하 3번)"
ExampleAddress ==
  <<"cheong", "ge", "cheon", "ro", " ", "1", "4", "(",
    "eul", "ji", "ro", "ji", "ha", " ", "3", "beon", ")">>

\* the alphabet of the inputs: the two typo substrings, their halves,
\* parentheses, disallowed punctuation, whitespace and a digit
Fragments ==
  {TypoFrom, CompoundFrom, <<"cheong">>, <<"ge", "cheon">>, <<"eul", "ji", "ro">>,
   <<"ji", "ha">>, <<"(">>, <<")">>, <<"#">>, <<" ">>, <<"\n">>, <<"1">>}

RECURSIVE Flatten(_)
Flatten(ss) == IF ss = <<>> THEN <<>> ELSE Head(ss) \o Flatten(Tail(ss))

CleanInputs ==
  {Flatten(fs) : fs \in UNION {[1..n -> Fragments] : n \in 0..MaxFrags}}
  \cup {ExampleAddress}

InitClean ==
  /\ text \in CleanInputs
  /\ raw = text
  /\ applied = 0
  /\ naver_client_id = "key"
  /\ naver_client_secret = "key"
  /\ auth_failed = FALSE
  /\ records = <<>>
  /\ futures = <<>>
  /\ results = <<>>
  /\ cpc = "idle"
  /\ cur = 0
  /\ yielded = {}
  /\ completed = 0
  /\ outcomes = <<>>
  /\ writes = <<>>
  /\ at401 = <<>>
  /\ atTrip = <<>>
  /\ rpc = "none"
  /\ data = NoData
  /\ df = <<>>
  /\ table = <<>>
  /\ executed = <<>>
  /\ caught = "none"
  /\ escaped = "none"
  /\ before = table

\* text = self.clean_address(text)
Normalize ==
  /\ applied < MaxApply
  /\ raw' = text
  /\ text' = clean_address(text)
  /\ applied' = applied + 1
  /\ UNCHANGED <<batchVars, runVars>>

NextClean == Normalize

SpecClean == InitClean /\ [][NextClean]_vars

(* ------------------------------------------------------------------ *)
(* One run of the job: BaseETL.run (base_etl.py 66-72)                 *)
(* ------------------------------------------------------------------ *)

\* the locals of transform and its executor are gone once it is left
DropLocals ==
  /\ records' = <<>>
  /\ futures' = <<>>
  /\ results' = <<>>
  /\ cpc' = "idle"
  /\ cur' = 0
  /\ yielded' = {}
  /\ completed' = 0
  /\ outcomes' = <<>>
  /\ writes' = <<>>
  /\ at401' = <<>>
  /\ atTrip' = <<>>

\* data = self.extract() (trash_bin_etl.py 96-112)
extract(d) ==
  /\ rpc = "extract"
  /\ data' = d
  /\ rpc' = "transform"
  /\ UNCHANGED <<batchVars, cleanVars, before, df, table, executed, caught, escaped>>

\* transform, lines 116-117: nothing to transform
TransformEmpty ==
  /\ rpc = "transform" /\ cpc = "idle"
  /\ IsEmpty(data)
  /\ df' = <<>>
  /\ rpc' = "load"
  /\ UNCHANGED <<batchVars, cleanVars, before, data, table, executed, caught, escaped>>

\* whether lines 129-131 find the columns they index
HasRequiredColumns(d) == RequiredColumns \subseteq d.columns

\* transform, lines 119-131 on a sheet without a required column:
\* df['city_name'] (or 'address', 'location_desc') raises KeyError, which
\* neither transform nor run catches
TransformKeyError ==
  /\ rpc = "transform" /\ cpc = "idle"
  /\ ~IsEmpty(data) /\ ~HasRequiredColumns(data)
  /\ escaped' = "KeyError"
  /\ rpc' = "raised"
  /\ UNCHANGED <<batchVars, cleanVars, before, data, df, table, executed, caught>>

\* transform, lines 119-148 on a sheet with its columns: the batch starts
TransformBatch ==
  /\ rpc = "transform" /\ cpc = "idle"
  /\ ~IsEmpty(data) /\ HasRequiredColumns(data)
  /\ Transform(data.rows)

\* row i of df after lines 161-165
Resolved(i) ==
  [city_name |-> records[i].city_name, address |-> records[i].address,
   location_desc |-> records[i].location_desc,
   latitude |-> to_numeric(outcomes[i][1]), longitude |-> to_numeric(outcomes[i][2])]

\* mutant: only the rows that got coordinates are kept
ReturnedRows_ResolvedOnly ==
  SelectSeq([i \in Indices |-> Resolved(i)], LAMBDA row : ~isna(row.latitude))

\* the df transform returns at line 180: every row of the batch
ReturnedRows == [i \in Indices |-> Resolved(i)]

\* fail_count (lines 167-168)
fail_count == Cardinality({i \in Indices : isna(Resolved(i).latitude)})

\* what os.makedirs and to_csv of the failure log can do
LogOutcomes == {"ok", "makedirs", "to_csv"}

\* whether lines 171-176 raise: the log is written only if fail_count > 0,
\* and nothing catches what os.makedirs or to_csv raises
LogRaises(io) == fail_count > 0 /\ io # "ok"

\* transform, lines 164-180, after the batch: the failure log, return df
FinishTransform(io) ==
  /\ rpc = "transform" /\ cpc = "done"
  /\ IF LogRaises(io)
     THEN /\ escaped' = "OSError"
          /\ rpc' = "raised"
          /\ df' = df
     ELSE /\ df' = ReturnedRows
          /\ rpc' = "load"
          /\ escaped' = escaped
  /\ DropLocals
  /\ UNCHANGED <<naver_client_id, naver_client_secret, auth_failed, cleanVars,
                 data, table, executed, caught, before>>

\* mutant: load does not look at the dataset
LoadSkipped_Never == FALSE

\* TrashBinETL.load line 184 and BaseETL.load line 37: nothing to load
LoadSkipped == df = <<>>

\* self.load(df) up to the try block; a skipped load returns, and so does run
load ==
  /\ rpc = "load"
  /\ rpc' = (IF LoadSkipped THEN "returned" ELSE "truncate")
  /\ UNCHANGED <<batchVars, cleanVars, before, data, df, table, executed, caught, escaped>>

\* mutant: load has no except clause
LoadFails_Propagates(statement) ==
  /\ escaped' = statement
  /\ rpc' = "raised"
  /\ table' = table
  /\ caught' = caught

\* except Exception as e: print(...) (lines 61-62); load returns, run returns
LoadFails(statement) ==
  /\ caught' = statement
  /\ rpc' = "returned"
  /\ table' = table
  /\ escaped' = escaped

\* mutant: the rows of earlier runs stay
Truncated_Keep(tbl) == tbl

\* TRUNCATE TABLE trash_bins RESTART IDENTITY CASCADE
Truncated(tbl) == <<>>

\* lines 42-44, in a transaction of its own
Truncate(ok) ==
  /\ rpc = "truncate"
  /\ executed' = Append(executed, "TRUNCATE")
  /\ IF ok
     THEN table' = Truncated(table) /\ rpc' = "insert" /\ UNCHANGED <<caught, escaped>>
     ELSE LoadFails("TRUNCATE")
  /\ UNCHANGED <<batchVars, cleanVars, before, data, df>>

\* the value to_sql stores for a cell: NaN goes in as NULL
SqlValue(v) == IF isna(v) THEN None ELSE v

\* the table row to_sql makes of a row of df: geom is not a column of df
Stored(row) ==
  [city_name |-> row.city_name, address |-> row.address,
   location_desc |-> row.location_desc,
   latitude |-> SqlValue(row.latitude), longitude |-> SqlValue(row.longitude),
   geom |-> None]

\* df.to_sql(..., if_exists='append')
Inserted(tbl, rows) == tbl \o [i \in 1..Len(rows) |-> Stored(rows[i])]

\* line 47
Insert(ok) ==
  /\ rpc = "insert"
  /\ executed' = Append(executed, "INSERT")
  /\ IF ok
     THEN table' = Inserted(table, df) /\ rpc' = "geom" /\ UNCHANGED <<caught, escaped>>
     ELSE LoadFails("INSERT")
  /\ UNCHANGED <<batchVars, cleanVars, before, data, df>>

\* UPDATE ... SET geom = ... WHERE geom IS NULL AND latitude IS NOT NULL
\* AND longitude IS NOT NULL
GeomUpdated(tbl) ==
  [i \in 1..Len(tbl) |->
     IF tbl[i].geom = None /\ tbl[i].latitude # None /\ tbl[i].longitude # None
     THEN [tbl[i] EXCEPT !.geom = Point(tbl[i].longitude, tbl[i].latitude)]
     ELSE tbl[i]]

\* lines 50-60; load returns, run returns
UpdateGeom(ok) ==
  /\ rpc = "geom"
  /\ executed' = Append(executed, "UPDATE")
  /\ IF ok
     THEN table' = GeomUpdated(table) /\ rpc' = "returned" /\ UNCHANGED <<caught, escaped>>
     ELSE LoadFails("UPDATE")
  /\ UNCHANGED <<batchVars, cleanVars, before, data, df>>

\* a TrashBinETL was constructed and run() called; the table holds what
\* earlier runs left
InitRun ==
  /\ naver_client_id \in Credentials
  /\ naver_client_secret = naver_client_id
  /\ auth_failed = FALSE
  /\ records = <<>>
  /\ futures = <<>>
  /\ results = <<>>
  /\ cpc = "idle"
  /\ cur = 0
  /\ yielded = {}
  /\ completed = 0
  /\ outcomes = <<>>
  /\ writes = <<>>
  /\ at401 = <<>>
  /\ atTrip = <<>>
  /\ text = <<>>
  /\ raw = <<>>
  /\ applied = 0
  /\ rpc = "extract"
  /\ data = NoData
  /\ df = <<>>
  /\ table \in Tables
  /\ executed = <<>>
  /\ caught = "none"
  /\ escaped = "none"
  /\ before = table

NextRun ==
  \/ \E d \in Extracted : extract(d)
  \/ TransformEmpty
  \/ TransformKeyError
  \/ TransformBatch
  \/ \E i \in Indices : StartTask(i)
  \/ \E i \in Indices : Entry(i)
  \/ \E i \in Indices : \E r \in Responses : SendRequest(i, r)
  \/ \E i \in Indices : HandleResponse(i)
  \/ \E i \in Indices : NextCompleted(i)
  \/ LoopExhausted
  \/ CheckAuthFailed
  \/ RecordResult
  \/ Join
  \/ \E io \in LogOutcomes : FinishTransform(io)
  \/ load
  \/ \E ok \in BOOLEAN : Truncate(ok)
  \/ \E ok \in BOOLEAN : Insert(ok)
  \/ \E ok \in BOOLEAN : UpdateGeom(ok)

SpecRun == InitRun /\ [][NextRun]_vars

(* ------------------------------------------------------------------ *)
(* Specification of the batch under every credential configuration     *)
(* ------------------------------------------------------------------ *)

\* rows of one spreadsheet in the runs that vary the credentials
MaxCredRows == 1

CredSheets == {sh \in Sheets : Len(sh) <= MaxCredRows}

\* after __init__ (lines 14-32), NAVER_CLIENT_ID and NAVER_CLIENT_SECRET
\* set or unset independently of each other
InitCred ==
  /\ naver_client_id \in Credentials
  /\ naver_client_secret \in Credentials
  /\ auth_failed = FALSE
  /\ records = <<>>
  /\ futures = <<>>
  /\ results = <<>>
  /\ cpc = "idle"
  /\ cur = 0
  /\ yielded = {}
  /\ completed = 0
  /\ outcomes = <<>>
  /\ writes = <<>>
  /\ at401 = <<>>
  /\ atTrip = <<>>
  /\ text = <<>>
  /\ raw = <<>>
  /\ applied = 0
  /\ rpc = "none"
  /\ data = NoData
  /\ df = <<>>
  /\ table = <<>>
  /\ executed = <<>>
  /\ caught = "none"
  /\ escaped = "none"
  /\ before = table

NextCred ==
  \/ \E sheet \in CredSheets : Transform(sheet)
  \/ \E i \in Indices : StartTask(i)
  \/ \E i \in Indices : Entry(i)
  \/ \E i \in Indices : \E r \in Responses : SendRequest(i, r)
  \/ \E i \in Indices : HandleResponse(i)
  \/ \E i \in Indices : NextCompleted(i)
  \/ LoopExhausted
  \/ CheckAuthFailed
  \/ RecordResult
  \/ Join

SpecCred == InitCred /\ [][NextCred]_vars

(* ------------------------------------------------------------------ *)
(* Properties of the batch (checked under Spec)                        *)
(* ------------------------------------------------------------------ *)

BatchDone == cpc = "done"

\* task i took a step of get_coordinates in this transition
TaskStep(i) == i \in DOMAIN futures' /\ records' = records /\ futures'[i] # futures[i]

\* C1: the outcome sequence has one slot per record; a slot is assigned at
\* most once, and what it holds is the value returned by the task of the same
\* index (never another record's), whatever the completion order; a slot that
\* was never assigned reads as absent.
C1_SlotsInInputOrder ==
  /\ Len(results) = Len(records)
  /\ \A i \in Indices :
       /\ writes[i] <= 1
       /\ writes[i] = 0 => results[i] = None
       /\ writes[i] = 1 => futures[i].state = "finished" /\ results[i] = futures[i].ret
  /\ BatchDone =>
       /\ Len(outcomes) = Len(records)
       /\ \A i \in Indices : outcomes[i] = (IF writes[i] = 1 THEN futures[i].ret ELSE Absent)

\* C1 witness: the second slot is filled with coordinates before the first.
C1_OutOfOrderWitness ==
  /\ Len(records) = 2
  /\ writes[2] = 1 /\ writes[1] = 0
  /\ results[2] # Absent

\* C2 as claimed: every record unrecorded when the first 401/403 of the batch
\* arrived ends absent, and auth_failed is true when the batch returns.
C2_UnrecordedAt401EndAbsent ==
  (BatchDone /\ at401 # <<>>) =>
     /\ auth_failed
     /\ \A i \in at401[1] : outcomes[i] = Absent

\* C2 amended: every record that, when auth_failed is set, is unrecorded and
\* whose future the collector has not already taken past its check of
\* auth_failed ends absent, and auth_failed is true when the batch returns.
C2_UnrecordedAtTripEndAbsent ==
  /\ (BatchDone /\ atTrip # <<>>) => \A i \in atTrip[1] : outcomes[i] = Absent
  /\ (BatchDone /\ at401 # <<>>) => auth_failed

\* C2 witness: a batch returned in which a task that obtained coordinates
\* after the flag was set ends absent.
C2_TripWitness ==
  /\ BatchDone /\ atTrip # <<>>
  /\ \E i \in atTrip[1] : futures[i].ret # Absent /\ outcomes[i] = Absent

\* the flag was already set when the running batch started: it is set, and
\* no response handled in this batch set it
PreTripped == cpc # "idle" /\ auth_failed /\ atTrip = <<>>

\* C3: in a batch that starts with auth_failed set no task issues a request,
\* every task that ran returned absent, and the batch returns one absent
\* outcome per record.
C3_PreTrippedAllAbsent ==
  PreTripped =>
     /\ \A i \in Indices : Requests(i) = 0 /\ futures[i].ret = Absent
     /\ BatchDone => Len(outcomes) = Len(records) /\ \A i \in Indices : outcomes[i] = Absent

\* C3 witness: a pre-tripped batch of two records has returned, one of its
\* tasks having run.
C3_PreTrippedWitness ==
  /\ PreTripped /\ BatchDone /\ Len(records) = 2
  /\ \E i \in Indices : futures[i].state = "finished"

\* C4 as claimed: a request of tier 2 or 3 is issued only while auth_failed
\* is clear.
C4_NoLaterTierOnceTripped ==
  [][\A i \in Indices :
       (TaskStep(i) /\ futures[i].pc = "request" /\ futures[i].tier >= 2
          /\ Len(futures'[i].calls) > Len(futures[i].calls))
       => ~auth_failed]_vars

\* C5: auth_failed never goes from true to false.
C5_AuthFailedOneWay == [][auth_failed => auth_failed']_vars

\* C5 witness: the flag is set and another worker holds a 401/403 response
\* it is about to handle.
C5_SecondSetterWitness ==
  /\ auth_failed
  /\ \E i \in Indices : futures[i].pc = "handle" /\ SetsAuthFailed(futures[i].resp)

\* the tiers task i has queried, in order
TiersQueried(i) == [k \in 1..Len(futures[i].calls) |-> futures[i].calls[k].tier]

\* C6 as claimed: tiers are queried in increasing order, and when the call of
\* tier 1 or tier 2 returns coordinates get_coordinates returns them without
\* a further query.
C6_StopAtFirstSuccess ==
  /\ [](\A i \in Indices : \A k \in 1..(Len(futures[i].calls) - 1) :
          TiersQueried(i)[k] < TiersQueried(i)[k + 1])
  /\ [][\A i \in Indices :
          (TaskStep(i) /\ futures[i].pc = "handle" /\ futures[i].tier \in {1, 2}
             /\ ApiReturn(futures[i].resp) # Absent)
          => /\ futures'[i].state = "finished"
             /\ futures'[i].ret = ApiReturn(futures[i].resp)]_vars

\* C7 as claimed: with the circuit clear and credentials configured, the
\* call of a tier that returns a coordinate pair ends the resolution with
\* exactly that pair, and the resolution ends absent only on a call that
\* returned absent.
C7_FirstPairWins ==
  [][\A i \in Indices :
       (TaskStep(i) /\ futures[i].pc = "handle" /\ ~auth_failed' /\ naver_client_id # "")
       => LET pair == ApiReturn(futures[i].resp)
          IN /\ pair # Absent =>
                  futures'[i].state = "finished" /\ futures'[i].ret = pair
             /\ (futures'[i].state = "finished" /\ futures'[i].ret = Absent) =>
                  pair = Absent]_vars

\* C8 as claimed: a record whose normalised address is empty gets no query
\* and resolves to absent.
C8_EmptyAddressSkipsTiering ==
  \A i \in Indices :
    clean_address(records[i].address) = <<>> =>
      Requests(i) = 0 /\ futures[i].ret = Absent

(* ------------------------------------------------------------------ *)
(* Properties of the normaliser (checked under SpecClean)              *)
(* ------------------------------------------------------------------ *)

\* C9 as claimed: clean_address(clean_address(x)) = clean_address(x); after
\* the second call raw is clean_address(x) and text is its normalisation.
C9_CleanAddressIdempotent == applied = 2 => text = raw

\* "청계천로 14 을지로 지하 3번"
ExampleClaimed ==
  <<"cheong", "gye", "cheon", "ro", " ", "1", "4", " ",
    "eul", "ji", "ro", " ", "ji", "ha", " ", "3", "beon">>

\* "청계천로 14"
ExampleActual == <<"cheong", "gye", "cheon", "ro", " ", "1", "4">>

\* C10 as claimed: the example address normalises to "청계천로 14 을지로 지하 3번".
C10_ExampleKeepsParenthesised ==
  (applied = 1 /\ raw = ExampleAddress) => text = ExampleClaimed

\* C10 amended: the example address normalises to "청계천로 14": the typo is
\* corrected and the parenthesised segment is removed with its contents.
C10_ExampleDropsParenthesised ==
  (applied = 1 /\ raw = ExampleAddress) => text = ExampleActual

\* C10 witness: clean_address has been applied to the example address.
C10_ExampleWitness == applied = 1 /\ raw = ExampleAddress /\ text # raw

(* ------------------------------------------------------------------ *)
(* Properties of one run (checked under SpecRun)                       *)
(* ------------------------------------------------------------------ *)

\* transform has returned its dataset to run
TransformReturned == rpc \in {"load", "truncate", "insert", "geom", "returned"}

\* C11: a run whose extract yields None or a sheet without rows gets an
\* empty dataset from transform; and a run whose dataset is empty sends no
\* statement to the destination and leaves the table as it found it.
C11_ZeroRowsNoLoad ==
  /\ (TransformReturned /\ IsEmpty(data)) => df = <<>>
  /\ (TransformReturned /\ df = <<>>) => executed = <<>> /\ table = before

\* C11 witness: a run without input returned, the table still holding the
\* row it held when the run started.
C11_ZeroRowsWitness ==
  /\ rpc = "returned" /\ IsEmpty(data) /\ df = <<>>
  /\ before = <<OldRow>> /\ table = <<OldRow>>

\* C12 as claimed: when the extracted sheet lacks a required column, the run
\* does not raise: transform returns an empty dataset, load sends nothing to
\* the destination, and run() returns.
C12_MissingColumnRecovered ==
  (rpc \in {"load", "truncate", "insert", "geom", "returned", "raised"}
     /\ data.kind = "frame" /\ ~(RequiredColumns \subseteq data.columns))
  => /\ rpc # "raised" /\ escaped = "none"
     /\ df = <<>>
     /\ executed = <<>>

\* C13 as claimed: whatever os.makedirs and to_csv of the failure log do,
\* the step that ends transform after the batch returns the full dataset,
\* one row per record, to run, which goes on to load; nothing is raised.
C13_LogFailureNeverAborts ==
  [][(rpc = "transform" /\ cpc = "done" /\ rpc' # rpc)
     => /\ rpc' = "load" /\ escaped' = "none"
        /\ Len(df') = Len(records)]_vars

\* load went through its three statements without an exception
LoadSucceeded == rpc = "returned" /\ caught = "none" /\ df # <<>>

\* C14: after a load of N >= 1 rows that raised nothing, whatever the table
\* held before, the table holds exactly the N rows of the dataset in order
\* (null for a missing coordinate), every row with both coordinates has the
\* point (longitude, latitude) as its geometry, and the statements sent were
\* TRUNCATE, INSERT, UPDATE in this order.
C14_LoadReplacesAndBackfills ==
  LoadSucceeded =>
    /\ Len(table) = Len(df)
    /\ \A i \in 1..Len(df) :
         /\ table[i].city_name = df[i].city_name
         /\ table[i].address = df[i].address
         /\ table[i].location_desc = df[i].location_desc
         /\ table[i].latitude = (IF df[i].latitude = NaN THEN None ELSE df[i].latitude)
         /\ table[i].longitude = (IF df[i].longitude = NaN THEN None ELSE df[i].longitude)
         /\ (table[i].latitude # None /\ table[i].longitude # None)
              => table[i].geom = <<table[i].longitude, table[i].latitude>>
    /\ executed = <<"TRUNCATE", "INSERT", "UPDATE">>

\* C14 witness: a dataset with a row that has coordinates was loaded into a
\* table that held an earlier row.
C14_LoadWitness ==
  /\ LoadSucceeded /\ before = <<OldRow>>
  /\ \E i \in 1..Len(table) : table[i].geom # None

\* the rows of a sheet whose address, stripped, is neither empty nor 'nan'
UsableRows(sheet) ==
  SelectSeq(sheet, LAMBDA row : Strip(row.address) \notin {<<>>, <<"n", "a", "n">>})

\* C15: the dataset transform returns to run has exactly one row, in order,
\* for every row of the sheet with a usable address, whatever the tasks
\* returned and whether or not the circuit tripped; and a row whose outcome
\* is absent carries null latitude and longitude.
C15_NoRowDropped ==
  /\ []((TransformReturned /\ ~IsEmpty(data)) =>
          LET usable == UsableRows(data.rows)
          IN /\ Len(df) = Len(usable)
             /\ \A i \in 1..Len(df) :
                  /\ df[i].city_name = Strip(usable[i].city_name)
                  /\ df[i].address = Strip(usable[i].address)
                  /\ df[i].location_desc = Strip(usable[i].location_desc))
  /\ [][(rpc = "transform" /\ cpc = "done" /\ rpc' = "load") =>
          \A i \in Indices :
            outcomes[i] = Absent => isna(df'[i].latitude) /\ isna(df'[i].longitude)]_vars

\* C15 witness: transform returned, after the circuit tripped, a dataset
\* with a row that has no coordinates.
C15_TrippedWitness ==
  /\ rpc = "load" /\ auth_failed /\ df # <<>>
  /\ \E i \in 1..Len(df) : isna(df[i].latitude)

\* C16: no step of load raises out of load, whether its statement succeeds
\* or fails: run goes on to the next statement or returns; and once load
\* has caught a failure, of the statement it sent last, run has returned
\* and nothing has escaped.
C16_LoadFailureCaught ==
  /\ [][(rpc \in {"truncate", "insert", "geom"}) =>
          (rpc' # "raised" /\ escaped' = "none")]_vars
  /\ [](caught # "none" =>
          /\ rpc = "returned" /\ escaped = "none"
          /\ executed # <<>> /\ caught = executed[Len(executed)])

\* C16 witness: the geometry update failed after truncate and insert went
\* through, and run returned.
C16_UpdateFailedWitness ==
  /\ rpc = "returned" /\ caught = "UPDATE"
  /\ executed = <<"TRUNCATE", "INSERT", "UPDATE">>

\* the table holds the rows of the dataset, in order, and nothing else
HoldsDataset ==
  /\ Len(table) = Len(df)
  /\ \A i \in 1..Len(df) :
       /\ table[i].city_name = df[i].city_name
       /\ table[i].address = df[i].address
       /\ table[i].location_desc = df[i].location_desc
       /\ table[i].latitude = (IF df[i].latitude = NaN THEN None ELSE df[i].latitude)
       /\ table[i].longitude = (IF df[i].longitude = NaN THEN None ELSE df[i].longitude)

\* C21 as claimed: when load has caught a failure and returned, the table
\* holds either all the rows it held when the run started or all the rows
\* of the new dataset; a bulk insert that fails after the truncate leaves
\* the earlier rows in place.
C21_FailedLoadAllOrNothing ==
  (rpc = "returned" /\ caught # "none") => (table = before \/ HoldsDataset)

(* ------------------------------------------------------------------ *)
(* Further properties of the batch (checked under Spec)                *)
(* ------------------------------------------------------------------ *)

\* C17 as claimed: when the batch returns, the slot of every task that ran
\* holds what its get_coordinates returned, coordinates included, whether
\* the task finished before or after the circuit tripped; the slot of a
\* task that never ran is absent.
C17_SlotHoldsTaskResult ==
  BatchDone =>
    \A i \in Indices :
      outcomes[i] = (IF futures[i].state = "finished" THEN futures[i].ret ELSE Absent)

\* the response is HTTP 401 or 403
IsAuthFailure(r) == r.kind = "http" /\ r.code \in {401, 403}

\* the response carries coordinates: HTTP 200, provider status OK, a first
\* candidate whose x and y parse as floats
CarriesCoordinates(r) ==
  /\ r.kind = "http" /\ r.code = 200 /\ r.body.status = "OK"
  /\ r.body.addresses # <<>>
  /\ r.body.addresses[1].y # "" /\ r.body.addresses[1].x # ""

\* C18: auth_failed changes only in the step in which a call handles a 401
\* or 403 it received, and such a step leaves it true; the handling of any
\* other response (exception, 500, 200 with a non-OK status, an empty
\* candidate list or an unparsable coordinate) leaves auth_failed as it was,
\* and the call returns absent: get_coordinates goes on to its next tier or
\* returns absent.
C18_TripsExactlyOnAuthFailure ==
  [][/\ (auth_failed' # auth_failed) =>
          \E i \in Indices :
            TaskStep(i) /\ futures[i].pc = "handle" /\ IsAuthFailure(futures[i].resp)
     /\ \A i \in Indices :
          (TaskStep(i) /\ futures[i].pc = "handle") =>
             /\ IsAuthFailure(futures[i].resp) => auth_failed'
             /\ ~IsAuthFailure(futures[i].resp) => auth_failed' = auth_failed
             /\ ~CarriesCoordinates(futures[i].resp) =>
                  /\ futures'[i].ret = Absent
                  /\ futures'[i].state = "finished" \/ futures'[i].pc = "request"]_vars

\* C18 witness: a batch of two records returned with the circuit tripped by
\* one of its own calls, both tasks having issued a request.
C18_TrippedWitness ==
  /\ BatchDone /\ auth_failed /\ atTrip # <<>>
  /\ Len(records) = 2 /\ \A i \in Indices : Requests(i) >= 1

\* what the call of its current tier returned to task i, read in the step
\* that ends the call: the handled response's pair, or absent when the query
\* was rejected as too short
TierReturned(i) ==
  IF futures[i].pc = "handle" THEN ApiReturn(futures[i].resp) ELSE <<<<>>, <<>>>>

\* the text holds '역' right after a Hangul syllable
HasStationName(s) == \E k \in 2..Len(s) : s[k] = "yeok" /\ s[k - 1] \in Hangul

\* C19 as claimed: get_coordinates goes on to Tier 2 only from a Tier 1 that
\* returned absent and for an address whose normalisation contains '지하';
\* it goes on to Tier 3 only from a tier that returned absent and for a
\* record whose raw address and location description, joined by a space,
\* hold '역' after a Hangul syllable; the Tier-2 query issued is the Tier-1
\* query with '지하' removed and re-trimmed; and no task issues more than
\* three requests. (The query of the tier gone on to is never shorter than
\* two characters, so going on to a tier is issuing its query.)
C19_TierGating ==
  /\ [][\A i \in Indices :
          (TaskStep(i) /\ futures[i].state = "running"
             /\ futures[i].tier >= 1 /\ futures'[i].tier # futures[i].tier) =>
             /\ TierReturned(i) = <<<<>>, <<>>>>
             /\ futures'[i].tier = 2 =>
                  /\ futures[i].tier = 1
                  /\ Contains(clean_address(records[i].address), <<"ji", "ha">>)
             /\ futures'[i].tier = 3 =>
                  HasStationName(records[i].address \o <<" ">> \o records[i].location_desc)
             /\ futures'[i].tier \in {2, 3}]_vars
  /\ [](\A i \in Indices :
          /\ Requests(i) <= 3
          /\ \A k \in 1..Requests(i) :
               futures[i].calls[k].tier = 2 =>
                 /\ k = 2 /\ futures[i].calls[1].tier = 1
                 /\ futures[i].calls[k].query =
                      Strip(Replace(futures[i].calls[1].query, <<"ji", "ha">>, <<>>)))

(* ------------------------------------------------------------------ *)
(* Properties of the credentials (checked under SpecCred)              *)
(* ------------------------------------------------------------------ *)

\* C20 as claimed: with the client id or the client secret empty, no task
\* issues a request, every task returns absent, and auth_failed stays false.
C20_UnconfiguredNoRequests ==
  (naver_client_id = "" \/ naver_client_secret = "") =>
     /\ \A i \in Indices : Requests(i) = 0 /\ futures[i].ret = <<<<>>, <<>>>>
     /\ ~auth_failed

(* ------------------------------------------------------------------ *)
(* Properties of the scheduled batch (checked under SpecLive)          *)
(* ------------------------------------------------------------------ *)

\* transform is between the submission of the tasks and lines 161-162
BatchRunning == cpc \in {"next", "check", "record", "join"}

\* C22: a batch that was started returns: from every state in which the
\* tasks are submitted and the outcome columns not yet built, a state is
\* reached in which they are built, one outcome per record and no task
\* running, whether or not the circuit trips on the way.
C22_BatchTerminates ==
  BatchRunning ~>
    (BatchDone /\ Len(outcomes) = Len(records) /\ Running = {})

\* C22 witness: a batch whose circuit tripped has returned, one task having
\* finished, the other cancelled in the queue.
C22_TrippedAndCancelledWitness ==
  /\ BatchDone /\ atTrip # <<>> /\ Len(records) = 2
  /\ \E i, j \in Indices :
       futures[i].state = "finished" /\ futures[j].state = "cancelled"

====
